---- MODULE Spec2Model ----
(***************************************************************************)
(* A model of tgpu:                                                        *)
(*   - ThreadCommandPool / CommandPools / Queue / CommandRecorder          *)
(*     (tgpu/src/command.rs, tgpu/src/device.rs, tgpu/src/sync.rs)         *)
(*   - the swapchain frame state machine (tgpu/src/swapchain.rs) driven    *)
(*     by the render loop of examples/triangle                             *)
(*   - FreeList (tgpu/src/freelist.rs), Buffer::write / read               *)
(*     (tgpu/src/buffer.rs), ImageLayout and image_transition              *)
(*     (tgpu/src/image.rs, tgpu/src/command.rs)                            *)
(*   - the locks of Queue and CommandPools, BindlessPoolImpl               *)
(*     (tgpu/src/descriptor2.rs).                                          *)
(* Ten specifications share the definitions below:                         *)
(*   Spec      threads recording, submitting and dropping on one Queue     *)
(*   SpecDrop  Spec followed by the drop of the Queue's CommandPools       *)
(*   SpecPool  one ThreadCommandPool driven through get/retire/try_cleanup *)
(*   SpecSwap  the acquire_next -> record -> submit -> present loop        *)
(*   SpecApi   acquire_next and present called in any order                *)
(*   SpecFree  two threads calling insert, remove, contains on a FreeList  *)
(*   SpecBuf   writes and reads of one host-visible Buffer                 *)
(*   SpecImg   ImageLayoutTransition values and recorded transitions       *)
(*   SpecLock  record, submit and recorder drops taking the two locks      *)
(*   SpecBind  allocate and free on one BindlessPoolImpl                   *)
(***************************************************************************)
EXTENDS Integers, Sequences, FiniteSets, TLC

(***************************************************************************)
(* Program constants.                                                      *)
(***************************************************************************)
\* command_buffer_count(5) in ThreadCommandPool::get
BatchSize == 5
\* `if ready.len() < 10` in ThreadCommandPool::try_cleanup
ReadyCap == 10

(***************************************************************************)
(* Bounds of the model.                                                    *)
(***************************************************************************)
\* SpecPool: calls of ThreadCommandPool::get in one behaviour
MaxGets == 11
\* SpecPool: buffers handed out by get and not yet retired
MaxHeld == 1
\* Spec: recorders created by Queue::record in one behaviour
MaxRecorders == 2
\* Spec: calls of Queue::submit that take a submission index
MaxSubmits == 3
\* SpecPool: largest submission index used as a tag or a completed index
MaxTag == 1
\* Spec: calls of finish() on one recorder
MaxFinishes == 2
\* SpecSwap: calls of Swapchain::acquire_next in one behaviour
MaxAcquires == 3
\* SpecSwap: largest preferred_image_count a swapchain is created with
MaxFlight == 2
\* SpecFree: FreeList calls in one behaviour
MaxCalls == 6
\* SpecFree: the largest index remove and contains are called with
MaxIdx == 2
\* SpecBuf: the size in bytes of the Buffer (BufferInfo.size)
BufSize == 3
\* SpecBuf: the largest value of a byte
MaxByte == 1
\* SpecBuf: the longest slice passed to write or read
MaxData == 2
\* SpecBuf: calls of write and read in one behaviour
MaxBufOps == 3
\* SpecLock: Queue operations started in one behaviour
MaxLockCalls == 4
\* SpecBind: the largest descriptor count configured for a type
MaxDescriptors == 2
\* SpecBind: calls of BindlessPoolImpl::allocate in one behaviour
MaxAllocs == 4
\* SpecSwap: largest image index the presentation engine hands out
MaxImage == 1
\* SpecSwap: largest finite timeout passed to acquire_next
MaxTimeout == 1

\* Option<u64>
None == <<>>
Some(x) == <<x>>

Threads == {1, 2}
\* the value of the queue mutex while no thread holds it
NoThread == 0
\* the thread that runs the render loop
RenderThread == 1
\* vk::Fence::null()
NullFence == -1

Max(a, b) == IF a >= b THEN a ELSE b

Last(s) == s[Len(s)]
Front(s) == SubSeq(s, 1, Len(s) - 1)
Range(s) == {s[i] : i \in DOMAIN s}
Handles(s) == {s[i].handle : i \in DOMAIN s}

(***************************************************************************)
(* ThreadCommandPool, as a value: `ready` and `dropped` are the two Vecs,  *)
(* `next` counts the handles the native pool has allocated (handles are    *)
(* 1..next) and `freed` holds the handles given back to the native pool.   *)
(***************************************************************************)
CommandBufferImpl(h, s) == [handle |-> h, submission |-> s]
DroppedCommandBuffer(h, s) == [handle |-> h, submission |-> s]

\* CommandPools::get builds a pool with both lists empty
NewThreadCommandPool == [ready |-> <<>>, dropped |-> <<>>, next |-> 0, freed |-> {}]

\* a get that stashes the whole batch, the buffer it hands out included
ThreadCommandPool_get_stash(p) ==
    IF p.ready # <<>>
    THEN [pool |-> [p EXCEPT !.ready = Front(p.ready)],
          buffer |-> Last(p.ready)]
    ELSE LET buffers == [i \in 1..BatchSize |-> CommandBufferImpl(p.next + i, 0)]
         IN  [pool |-> [p EXCEPT !.ready = p.ready \o buffers,
                                 !.next = p.next + BatchSize],
              buffer |-> Last(buffers)]

\* ThreadCommandPool::get: pop from ready, else allocate a batch, hand back
\* the last buffer of the batch and stash the others in ready.
ThreadCommandPool_get(p) ==
    IF p.ready # <<>>
    THEN [pool |-> [p EXCEPT !.ready = Front(p.ready)],
          buffer |-> Last(p.ready)]
    ELSE LET buffers == [i \in 1..BatchSize |-> CommandBufferImpl(p.next + i, 0)]
         IN  [pool |-> [p EXCEPT !.ready = p.ready \o Front(buffers),
                                 !.next = p.next + BatchSize],
              buffer |-> Last(buffers)]

\* a retire that loses the buffer
ThreadCommandPool_retire_lost(p, buffer) == p

\* ThreadCommandPool::retire
ThreadCommandPool_retire(p, buffer) ==
    [p EXCEPT !.dropped = Append(p.dropped, buffer)]

\* the handles try_cleanup moves out of `dropped` (retain's closure)
Freeable(p, completed_index) ==
    LET done == SelectSeq(p.dropped, LAMBDA b : b.submission <= completed_index)
    IN  [i \in DOMAIN done |-> done[i].handle]

\* a try_cleanup whose retain compares with < instead of <=
ThreadCommandPool_try_cleanup_strict(p, completed_index) ==
    LET done == SelectSeq(p.dropped, LAMBDA b : b.submission < completed_index)
        freeable == [i \in DOMAIN done |-> done[i].handle]
        retired == SelectSeq(p.dropped, LAMBDA b : ~(b.submission < completed_index))
    IN  IF freeable = <<>>
        THEN [p EXCEPT !.dropped = retired]
        ELSE IF Len(p.ready) < ReadyCap
             THEN [p EXCEPT !.dropped = retired,
                            !.ready = p.ready \o
                               [i \in DOMAIN freeable |-> CommandBufferImpl(freeable[i], 0)]]
             ELSE [p EXCEPT !.dropped = retired,
                            !.freed = p.freed \cup Range(freeable)]

\* a try_cleanup that forgets the buffers it finds no room for
ThreadCommandPool_try_cleanup_leak(p, completed_index) ==
    LET freeable == Freeable(p, completed_index)
        retired == SelectSeq(p.dropped, LAMBDA b : ~(b.submission <= completed_index))
    IN  IF freeable = <<>>
        THEN [p EXCEPT !.dropped = retired]
        ELSE IF Len(p.ready) < ReadyCap
             THEN [p EXCEPT !.dropped = retired,
                            !.ready = p.ready \o
                               [i \in DOMAIN freeable |-> CommandBufferImpl(freeable[i], 0)]]
             ELSE [p EXCEPT !.dropped = retired]

\* ThreadCommandPool::try_cleanup
ThreadCommandPool_try_cleanup(p, completed_index) ==
    LET freeable == Freeable(p, completed_index)
        retired == SelectSeq(p.dropped, LAMBDA b : ~(b.submission <= completed_index))
    IN  IF freeable = <<>>
        THEN [p EXCEPT !.dropped = retired]
        ELSE IF Len(p.ready) < ReadyCap
             THEN [p EXCEPT !.dropped = retired,
                            !.ready = p.ready \o
                               [i \in DOMAIN freeable |-> CommandBufferImpl(freeable[i], 0)]]
             ELSE [p EXCEPT !.dropped = retired,
                            !.freed = p.freed \cup Range(freeable)]

(***************************************************************************)
(* State.                                                                  *)
(*  Queue (device.rs request_device): state (the queue mutex),             *)
(*    submission_counter, timeline (the timeline semaphore's counter),     *)
(*    pools (CommandPools.pools, a map keyed by thread id).                *)
(*  recorders: every CommandRecorderImpl created so far; `buffer` is its   *)
(*    CommandBufferImpl, whose `submission` cell is shared with the        *)
(*    CommandBuffer clones finish() hands out; `live` is false once the    *)
(*    recorder has been dropped, `finished` once finish() has returned a   *)
(*    CommandBuffer, `finishes` counts the CommandBuffers finish() has     *)
(*    returned, `submitted` is true once the native queue accepted it.     *)
(*  pc, args: where each thread is inside Queue::submit and the locals of  *)
(*    that call.                                                           *)
(*  returned: the values Queue::submit has returned (the indices of the    *)
(*    submissions the native queue accepted), in order.                    *)
(*  gpu: the accepted submissions the GPU has not completed yet, oldest    *)
(*    first: the index each signals on the timeline and the fence that was *)
(*    passed to vkQueueSubmit.                                             *)
(*  native: for every buffer the native queue has been handed, the index   *)
(*    of the last submission that carried it.                              *)
(*  lastCleanup: the completed_index of the latest try_cleanup call.       *)
(*  tpool, held, gets: the lone pool of SpecPool and its caller.           *)
(*  SwapchainImpl: max_flight, frame, flight (flight[i] is TRUE while the  *)
(*    fence of slot i is signalled).                                       *)
(*  render: where the render loop is inside render_frame, with its locals  *)
(*    `frame` (the Frame acquire_next returned) and `recorder`.            *)
(*  lastWait: the latest DeviceImpl::wait_fence call: the slot whose fence *)
(*    it waited on, its timeout, the result of vkWaitForFences, how long   *)
(*    it blocked, and whether the frame that last used the slot was still  *)
(*    executing when it was made.                                          *)
(*  frames: the frame submissions, each with the flight slot it used and   *)
(*    its submission index.                                                *)
(*  acquires: the number of acquire_next calls so far.                     *)
(*  available, finished: the two semaphore arrays of SwapchainImpl (the    *)
(*    handles they hold).                                                  *)
(*  lastAcquire: the latest answer of vkAcquireNextImageKHR and what       *)
(*    acquire_next returned for it.  lastPresent: the latest answer of     *)
(*    vkQueuePresentKHR, the Frame that was passed to present and what     *)
(*    present returned.                                                    *)
(*  teardown: the drop of the queue's CommandPools: where it is (`pc`),    *)
(*    the pool the loop is at (`tid`) with the handle lists it collected   *)
(*    (`ready`, `dropped`), whether device_wait_idle reported an error     *)
(*    (`failed`), and the native calls made so far (`log`).                *)
(*  FreeList (freelist.rs): inner (FreeListInner: `data`, whose slot idx   *)
(*    is data[idx + 1], and `free`), flHolder (the thread that holds the   *)
(*    Mutex around it), flCall (where each thread is inside a FreeList     *)
(*    call, with the call's argument and locals).                          *)
(*  flLive: the indices an insert has returned and no remove has taken     *)
(*    since.  flFreed: the indices taken by remove and not returned by an  *)
(*    insert since, in the order they were freed.  flStored: the value     *)
(*    each live index was inserted with.  flLast: the latest FreeList call *)
(*    that returned.  flCalls: the number of FreeList calls so far.        *)
(*  Buffer (buffer.rs): memory (the bytes of the allocation, byte i at     *)
(*    memory[i + 1]), bufUB (a copy has gone outside the allocation or the *)
(*    caller's slice), lastWrite (a write whose range no later write has   *)
(*    touched), lastRead (the latest read: its arguments and the caller's  *)
(*    slice after it), bufLast (the number, kind and arguments of the      *)
(*    latest call).                                                        *)
(*  Image transitions (image.rs, command.rs): imgFrom, imgTo (the two      *)
(*    ImageLayoutTransition values a caller has built, if any), inferred   *)
(*    (for each ImageLayout variant, the pairs infer_stage_flags has       *)
(*    returned for it), inferPanicked (the variants it has panicked on),   *)
(*    imgBarrier (the image_transition call just made: the transition      *)
(*    passed and the barrier recorded), imgPc (the caller: "running" or    *)
(*    "panicked").                                                         *)
(*  The two locks of a Queue (command.rs, device.rs): lkQueue and lkPools  *)
(*    (the thread that holds Queue.state, CommandPools.pools), lkCall      *)
(*    (the Queue operation each thread is in and how far it has got),      *)
(*    lkHasPool (the threads with an entry in the pools map), lkCalls (the *)
(*    number of operations started).                                       *)
(*  BindlessPoolImpl (descriptor2.rs): allocations (one FreeListInner per  *)
(*    DescriptorType), bindMax (the maximum descriptor count configured    *)
(*    for each type), bindHandles (the DescriptorHandleRaw values the      *)
(*    caller holds), bindCalls (the number of allocate calls so far).      *)
(***************************************************************************)
VARIABLES state, submission_counter, timeline, pools, recorders, pc, args,
          returned, gpu, native, lastCleanup,
          tpool, held, gets,
          max_flight, frame, flight, render, lastWait, frames, acquires,
          available, finished, lastAcquire, lastPresent,
          teardown,
          inner, flHolder, flCall, flLive, flFreed, flStored, flLast, flCalls,
          memory, bufUB, lastWrite, lastRead, bufLast,
          imgFrom, imgTo, inferred, inferPanicked, imgBarrier, imgPc,
          lkQueue, lkPools, lkCall, lkHasPool, lkCalls,
          allocations, bindMax, bindHandles, bindCalls

queueVars == <<state, submission_counter, timeline, pools, recorders, pc, args,
               returned, gpu, native, lastCleanup>>
poolVars == <<tpool, held, gets>>
callVars == <<available, finished, lastAcquire, lastPresent>>
loopVars == <<max_flight, frame, render, lastWait, frames, acquires, callVars>>
swapVars == <<flight, loopVars>>
dropVars == <<teardown>>
freeVars == <<inner, flHolder, flCall, flLive, flFreed, flStored, flLast, flCalls>>
bufVars == <<memory, bufUB, lastWrite, lastRead, bufLast>>
imgVars == <<imgFrom, imgTo, inferred, inferPanicked, imgBarrier, imgPc>>
lockVars == <<lkQueue, lkPools, lkCall, lkHasPool, lkCalls>>
bindVars == <<allocations, bindMax, bindHandles, bindCalls>>
moreVars == <<lockVars, bindVars>>
libVars == <<freeVars, bufVars, imgVars, moreVars>>
vars == <<queueVars, poolVars, swapVars, dropVars, libVars>>

\* the variants of enum ImageLayout
Variants == {"Undefined", "Unified", "General", "Compute", "Fragment", "Color",
             "TransferDst", "Present", "Custom"}

\* the descriptor types of the model (enum DescriptorType)
DescriptorTypes == {"Sampler", "StorageBuffer"}

\* a thread that is in no Queue operation
NoOp == [op |-> "none", at |-> 1]

NoCall == [pc |-> "idle", op |-> "none", arg |-> 0, idx |-> 0, reuse |-> FALSE]
NoArgs == [records |-> {}, submission_index |-> 0]

\* Instance::request_device: counter 0, timeline semaphore created at 0,
\* no pool yet; no recorder exists.
QueueInit ==
    /\ state = NoThread
    /\ submission_counter = 0
    /\ timeline = 0
    /\ pools = <<>>
    /\ recorders = <<>>
    /\ pc = [t \in Threads |-> "idle"]
    /\ args = [t \in Threads |-> NoArgs]
    /\ returned = <<>>
    /\ gpu = <<>>
    /\ native = {}
    /\ lastCleanup = 0

PoolInit ==
    /\ tpool = NewThreadCommandPool
    /\ held = {}
    /\ gets = 0

\* the queue and its CommandPools are alive
DropInit ==
    teardown = [pc |-> "alive", tid |-> NoThread, ready |-> <<>>, dropped |-> <<>>,
                failed |-> FALSE, log |-> <<>>]

(***************************************************************************)
(* What the native queue knows about a buffer.                             *)
(***************************************************************************)
\* the native queue has been handed buffer h of thread t's pool
Submitted(t, h) == \E e \in native : e.tid = t /\ e.handle = h

\* the index its last native submission carried
LastSubmission(t, h) == (CHOOSE e \in native : e.tid = t /\ e.handle = h).index

\* the indices of the submissions the GPU has not completed
Executing == {gpu[i].index : i \in DOMAIN gpu}

\* submission N was accepted and the GPU has completed it
Completed(N) == N \in Range(returned) /\ N \notin Executing

\* buffer h of thread t is part of a submission the GPU has not completed
\* (the GPU completes a queue's submissions in order)
PendingOnGpu(t, h) == Submitted(t, h) /\ LastSubmission(t, h) \in Executing

(***************************************************************************)
(* CommandPools                                                            *)
(***************************************************************************)
\* a CommandPools::get that builds a new pool on every call
CommandPools_get_fresh(tid) == NewThreadCommandPool

\* CommandPools::get: the caller's pool, created on first use
CommandPools_get(tid) ==
    IF tid \in DOMAIN pools THEN pools[tid] ELSE NewThreadCommandPool

(***************************************************************************)
(* Queue::record on thread t                                               *)
(***************************************************************************)
Record(t) ==
    /\ pc[t] = "idle"
    /\ Len(recorders) < MaxRecorders
    /\ LET pool == CommandPools_get(t)
           got == ThreadCommandPool_get(pool)
       IN  /\ pools' = [u \in DOMAIN pools \cup {t} |->
                            IF u = t THEN got.pool ELSE pools[u]]
           /\ recorders' = Append(recorders,
                  [tid |-> t, buffer |-> got.buffer, live |-> TRUE,
                   finished |-> FALSE, finishes |-> 0, submitted |-> FALSE])
    /\ UNCHANGED <<state, submission_counter, timeline, pc, args,
                   returned, gpu, native, lastCleanup>>

\* CommandRecorder::finish: takes &mut self, ends recording and returns a
\* CommandBuffer that clones the recorder's CommandBufferImpl; the recorder
\* stays alive and usable, so finish() can be called on it again.
Finish(r) ==
    /\ r \in DOMAIN recorders
    /\ recorders[r].live
    /\ recorders[r].finishes < MaxFinishes
    /\ pc[recorders[r].tid] = "idle"
    /\ recorders' = [recorders EXCEPT ![r].finished = TRUE,
                                     ![r].finishes = @ + 1]
    /\ UNCHANGED <<state, submission_counter, timeline, pools, pc, args,
                   returned, gpu, native, lastCleanup>>

\* impl Drop for CommandRecorderImpl: retire the buffer, tagged with the
\* value its submission cell holds now.  Runs on the recorder's own thread,
\* also while that thread unwinds from a panic.
DropRecorder(r) ==
    /\ r \in DOMAIN recorders
    /\ recorders[r].live
    /\ pc[recorders[r].tid] \in {"idle", "panicked"}
    /\ LET t == recorders[r].tid
           buffer == DroppedCommandBuffer(recorders[r].buffer.handle,
                                          recorders[r].buffer.submission)
       IN  pools' = [pools EXCEPT ![t] = ThreadCommandPool_retire(pools[t], buffer)]
    /\ recorders' = [recorders EXCEPT ![r].live = FALSE]
    /\ UNCHANGED <<state, submission_counter, timeline, pc, args,
                   returned, gpu, native, lastCleanup>>

(***************************************************************************)
(* Queue::submit on thread t, in two steps: the call up to the fetch_add   *)
(* (it blocks in lock() until the mutex is free), then QueueImpl::submit   *)
(* up to the return.                                                       *)
(***************************************************************************)
\* the CommandBuffer handles thread t can list in SubmitInfo.records
FinishedOf(t) == {r \in DOMAIN recorders : recorders[r].tid = t /\ recorders[r].finished}

\* Queue::lock: the mutex `state` is free
LockFree == state = NoThread

\* a Queue::submit that takes its index without holding the queue lock
SubmitLockUnguarded(t, records) ==
    /\ pc[t] = "idle"
    /\ submission_counter < MaxSubmits
    /\ records \subseteq FinishedOf(t)
    /\ state' = t
    /\ args' = [args EXCEPT ![t] = [records |-> records,
                                    submission_index |-> submission_counter]]
    /\ submission_counter' = submission_counter + 1
    /\ pc' = [pc EXCEPT ![t] = "submitting"]
    /\ UNCHANGED <<timeline, pools, recorders, returned, gpu, native, lastCleanup>>

\* `let _lock = self.lock(); let submission_index = counter.fetch_add(1, ..)`:
\* fetch_add returns the value the counter held before the addition.
SubmitLock(t, records) ==
    /\ pc[t] = "idle"
    /\ submission_counter < MaxSubmits
    /\ records \subseteq FinishedOf(t)
    /\ LockFree
    /\ state' = t
    /\ args' = [args EXCEPT ![t] = [records |-> records,
                                    submission_index |-> submission_counter]]
    /\ submission_counter' = submission_counter + 1
    /\ pc' = [pc EXCEPT ![t] = "submitting"]
    /\ UNCHANGED <<timeline, pools, recorders, returned, gpu, native, lastCleanup>>

\* a submit that leaves the submission cells as they are
StampSkipped(recs, records, submission_index) == recs

\* `b.submission.set(submission_index)` for every listed command buffer
Stamp(recs, records, submission_index) ==
    [r \in DOMAIN recs |->
        IF r \in records
        THEN [recs[r] EXCEPT !.buffer.submission = submission_index]
        ELSE recs[r]]

\* the native queue accepts the listed buffers of thread t under index n
Accept(t, handles, n) ==
    {e \in native : ~(e.tid = t /\ e.handle \in handles)}
        \cup {[tid |-> t, handle |-> h, index |-> n] : h \in handles}

\* a CommandPools::try_cleanup that cleans the pool of every thread
CommandPools_try_cleanup_all(thread_id, completed_index) ==
    [u \in DOMAIN pools |-> ThreadCommandPool_try_cleanup(pools[u], completed_index)]

\* CommandPools::try_cleanup on a thread that has a pool: the map after
\* `pools.get(&thread_id).unwrap().try_cleanup(completed_index)`
CommandPools_try_cleanup(thread_id, completed_index) ==
    [pools EXCEPT ![thread_id] =
        ThreadCommandPool_try_cleanup(pools[thread_id], completed_index)]

\* Queue::submit unwinds: CommandPools::try_cleanup unwraps the caller's
\* pool, Queue::submit unwraps the Result of QueueImpl::submit
SubmitPanics(t, ok) == t \notin DOMAIN pools \/ ~ok

\* QueueImpl::submit on thread t and the value Queue::submit returns.  `ok`
\* is the result of the native vkQueueSubmit, which is passed no fence.
QueueImpl_submit(t, submission_index, records, ok) ==
    LET timeline_index == timeline
    IN  IF t \notin DOMAIN pools
        THEN UNCHANGED <<pools, recorders, returned, gpu, native, lastCleanup>>
        ELSE /\ pools' = CommandPools_try_cleanup(t, timeline_index)
             /\ lastCleanup' = timeline_index
             /\ IF ok
                THEN /\ recorders' =
                            [r \in DOMAIN recorders |->
                                IF r \in records
                                THEN [Stamp(recorders, records, submission_index)[r]
                                         EXCEPT !.submitted = TRUE]
                                ELSE recorders[r]]
                     /\ native' = Accept(t, {recorders[r].buffer.handle : r \in records},
                                         submission_index)
                     /\ gpu' = Append(gpu, [index |-> submission_index,
                                            fence |-> NullFence])
                     /\ returned' = Append(returned, submission_index)
                ELSE /\ recorders' = Stamp(recorders, records, submission_index)
                     /\ UNCHANGED <<returned, gpu, native>>

\* The second step of Queue::submit.  The mutex guard is released on return
\* and on unwinding alike.
SubmitInner(t, ok) ==
    /\ pc[t] = "submitting"
    /\ state' = NoThread
    /\ args' = [args EXCEPT ![t] = NoArgs]
    /\ QueueImpl_submit(t, args[t].submission_index, args[t].records, ok)
    /\ pc' = [pc EXCEPT ![t] = IF SubmitPanics(t, ok) THEN "panicked" ELSE "idle"]
    /\ UNCHANGED <<submission_counter, timeline>>

\* The GPU finishes the oldest submission it still executes: it performs the
\* signal on the queue's timeline semaphore (value = the submission index)
\* and signals the fence the submission was given, if it was given one.
GpuComplete ==
    /\ gpu # <<>>
    /\ gpu' = Tail(gpu)
    /\ timeline' = Max(timeline, Head(gpu).index)
    /\ flight' = IF Head(gpu).fence = NullFence
                 THEN flight
                 ELSE [flight EXCEPT ![Head(gpu).fence] = TRUE]
    /\ UNCHANGED <<state, submission_counter, pools, recorders, pc, args,
                   returned, native, lastCleanup>>

(***************************************************************************)
(* SwapchainImpl and the device calls it makes.                            *)
(***************************************************************************)
Frame(index, suboptimal) == [index |-> index, suboptimal |-> suboptimal]

Images == 0..MaxImage
Timeouts == {None} \cup {Some(t) : t \in 0..MaxTimeout}

\* create_syncs(device, max_flight): max_flight semaphores in `available`
\* and in `finished` (their handles), max_flight fences in `flight`, every
\* fence created signalled
create_syncs(n) ==
    [available |-> [i \in 0..(n - 1) |-> i],
     finished |-> [i \in 0..(n - 1) |-> n + i],
     flight |-> [i \in 0..(n - 1) |-> TRUE]]

\* SwapchainImpl::new with info.preferred_image_count = n, which is taken as
\* it is.  The render loop has not started.
SwapchainImpl_new(n) ==
    /\ max_flight = n
    /\ frame = 0
    /\ flight = create_syncs(n).flight
    /\ available = create_syncs(n).available
    /\ finished = create_syncs(n).finished
    /\ lastAcquire = [out |-> "none", ok |-> FALSE, frame |-> Frame(0, FALSE)]
    /\ lastPresent = [out |-> "none", frame |-> Frame(0, FALSE), ok |-> FALSE,
                      needs_recreation |-> FALSE]
    /\ render = [pc |-> "idle", frame |-> Frame(0, FALSE), recorder |-> 0]
    /\ lastWait = [slot |-> 0, timeout |-> None, result |-> "none",
                   blocked |-> 0, busy |-> FALSE]
    /\ frames = <<>>
    /\ acquires = 0

\* vkWaitForFences on one fence: success at once if it is signalled; nothing
\* the program submits signals it later, so the wait otherwise lasts the
\* whole timeout and reports TIMEOUT
vkWaitForFences(signalled, wait) ==
    IF signalled
    THEN [result |-> "SUCCESS", blocked |-> 0]
    ELSE [result |-> "TIMEOUT", blocked |-> wait]

\* a wait_fence that drops the Result instead (`let _ = ...`)
ExpectIgnored(result) == TRUE

\* .expect("Wait for fence"): does the call get past the Result
Expect(result) == result = "SUCCESS"

\* DeviceImpl::wait_fence
wait_fence(signalled, timeout) ==
    LET wait == IF timeout # None THEN timeout[1] ELSE 0
        r == vkWaitForFences(signalled, wait)
    IN  [result |-> r.result, blocked |-> r.blocked, panics |-> ~Expect(r.result)]

\* an acquire_next that leaves the fence as it found it
reset_fence_skipped(fl, i) == fl

\* DeviceImpl::reset_fence on the fence of slot i
reset_fence(fl, i) == [fl EXCEPT ![i] = FALSE]

\* what vkAcquireNextImageKHR can answer
AcquireOutcomes ==
    {[result |-> r, index |-> i] : r \in {"SUCCESS", "SUBOPTIMAL_KHR"}, i \in Images}
        \cup {[result |-> r, index |-> 0] :
                 r \in {"ERROR_OUT_OF_DATE_KHR", "ERROR_DEVICE_LOST"}}

\* a match without the out-of-date arm: every native error is an Err
AcquireReturn_fatal(out) ==
    CASE out.result = "SUCCESS" -> [ok |-> TRUE, frame |-> Frame(out.index, FALSE)]
      [] out.result = "SUBOPTIMAL_KHR" -> [ok |-> TRUE, frame |-> Frame(out.index, TRUE)]
      [] OTHER -> [ok |-> FALSE, frame |-> Frame(0, FALSE)]

\* the match on acquire_next_image's result in acquire_next
AcquireReturn(out) ==
    CASE out.result = "SUCCESS" -> [ok |-> TRUE, frame |-> Frame(out.index, FALSE)]
      [] out.result = "SUBOPTIMAL_KHR" -> [ok |-> TRUE, frame |-> Frame(out.index, TRUE)]
      [] out.result = "ERROR_OUT_OF_DATE_KHR" -> [ok |-> TRUE, frame |-> Frame(0, FALSE)]
      [] OTHER -> [ok |-> FALSE, frame |-> Frame(0, FALSE)]

\* what vkQueuePresentKHR can answer
PresentOutcomes == {"SUCCESS", "SUBOPTIMAL_KHR", "ERROR_OUT_OF_DATE_KHR", "ERROR_DEVICE_LOST"}

\* a match that only looks at the native answer, not at the Frame passed in
PresentReturn_native(out, fr) ==
    CASE out \in {"SUBOPTIMAL_KHR", "ERROR_OUT_OF_DATE_KHR"} ->
             [ok |-> TRUE, needs_recreation |-> TRUE]
      [] out = "SUCCESS" -> [ok |-> TRUE, needs_recreation |-> FALSE]
      [] OTHER -> [ok |-> FALSE, needs_recreation |-> FALSE]

\* the match on queue_present's result in present
PresentReturn(out, fr) ==
    CASE out = "SUCCESS" -> [ok |-> TRUE, needs_recreation |-> fr.suboptimal]
      [] out = "SUBOPTIMAL_KHR" -> [ok |-> TRUE, needs_recreation |-> TRUE]
      [] out = "ERROR_OUT_OF_DATE_KHR" -> [ok |-> TRUE, needs_recreation |-> TRUE]
      [] OTHER -> [ok |-> FALSE, needs_recreation |-> FALSE]

\* Swapchain::recreate rebuilds the per-image resources and leaves the sync
\* objects as they are
recreate(fl) == fl

\* the frame that last used slot i is still executing on the GPU
SlotBusy(i) == \E k \in DOMAIN frames : frames[k].slot = i /\ frames[k].index \in Executing

(***************************************************************************)
(* SwapchainImpl::acquire_next and SwapchainImpl::present.                 *)
(***************************************************************************)
\* acquire_next unwinds: `self.flight[self.frame]` is out of bounds, or
\* wait_fence panics
AcquirePanics(timeout) ==
    frame \notin DOMAIN flight \/ wait_fence(flight[frame], timeout).panics

\* SwapchainImpl::acquire_next(timeout); `out` is the answer of
\* vkAcquireNextImageKHR, asked only when the fence wait has succeeded
SwapchainImpl_acquire_next(timeout, out) ==
    /\ acquires < MaxAcquires
    /\ acquires' = acquires + 1
    /\ IF frame \notin DOMAIN flight
       THEN UNCHANGED <<flight, lastWait, lastAcquire>>
       ELSE LET w == wait_fence(flight[frame], timeout)
                ret == AcquireReturn(out)
            IN  /\ lastWait' = [slot |-> frame, timeout |-> timeout,
                                result |-> w.result, blocked |-> w.blocked,
                                busy |-> SlotBusy(frame)]
                /\ IF w.panics
                   THEN UNCHANGED <<flight, lastAcquire>>
                   ELSE /\ flight' = reset_fence(flight, frame)
                        /\ lastAcquire' = [out |-> out.result, ok |-> ret.ok,
                                           frame |-> ret.frame]
    /\ UNCHANGED <<max_flight, frame, frames, available, finished, lastPresent>>

\* present unwinds: `self.finished[self.frame]` is out of bounds
PresentPanics == frame \notin DOMAIN finished

\* SwapchainImpl::present(queue, fr); `out` is the answer of vkQueuePresentKHR
SwapchainImpl_present(out, fr) ==
    /\ IF PresentPanics
       THEN UNCHANGED <<frame, lastPresent>>
       ELSE LET ret == PresentReturn(out, fr)
            IN  /\ frame' = IF ret.ok THEN (frame + 1) % max_flight ELSE frame
                /\ lastPresent' = [out |-> out, frame |-> fr, ok |-> ret.ok,
                                   needs_recreation |-> ret.needs_recreation]
    /\ UNCHANGED <<max_flight, lastWait, frames, acquires, available, finished,
                   lastAcquire>>

(***************************************************************************)
(* The render loop (render_frame), one action per call it makes.           *)
(***************************************************************************)
\* `let frame = self.swapchain.acquire_next(timeout)?`
SwAcquire(timeout, out) ==
    /\ render.pc = "idle"
    /\ SwapchainImpl_acquire_next(timeout, out)
    /\ render' = IF AcquirePanics(timeout)
                 THEN [render EXCEPT !.pc = "panicked"]
                 ELSE IF AcquireReturn(out).ok
                      THEN [render EXCEPT !.pc = "acquired",
                                          !.frame = AcquireReturn(out).frame]
                      ELSE render
    /\ UNCHANGED queueVars

\* `if frame.suboptimal { let _ = self.swapchain.recreate(); return Ok(()) }`
SwSuboptimal ==
    /\ render.pc = "acquired"
    /\ render.frame.suboptimal
    /\ flight' = recreate(flight)
    /\ render' = [render EXCEPT !.pc = "idle"]
    /\ UNCHANGED <<queueVars, max_flight, frame, lastWait, frames, acquires, callVars>>

\* `let mut recorder = self.queue.record()`
SwRecord ==
    /\ render.pc = "acquired"
    /\ ~render.frame.suboptimal
    /\ Record(RenderThread)
    /\ render' = [render EXCEPT !.pc = "recording", !.recorder = Len(recorders) + 1]
    /\ UNCHANGED <<max_flight, frame, flight, lastWait, frames, acquires, callVars>>

\* `recorder.finish()`
SwFinish ==
    /\ render.pc = "recording"
    /\ Finish(render.recorder)
    /\ render' = [render EXCEPT !.pc = "finished"]
    /\ UNCHANGED <<max_flight, frame, flight, lastWait, frames, acquires, callVars>>

\* `self.queue.submit(SubmitInfo { records: &[..], wait_binary: available,
\* signal_binary: finished, .. })`: the whole of Queue::submit; the render
\* thread is the only one that uses the queue here.  A panic ends the loop.
SwSubmit(ok) ==
    /\ render.pc = "finished"
    /\ submission_counter < MaxSubmits
    /\ LockFree
    /\ submission_counter' = submission_counter + 1
    /\ QueueImpl_submit(RenderThread, submission_counter, {render.recorder}, ok)
    /\ frames' = IF SubmitPanics(RenderThread, ok)
                 THEN frames
                 ELSE Append(frames, [slot |-> frame, index |-> submission_counter])
    /\ render' = [render EXCEPT !.pc = IF SubmitPanics(RenderThread, ok)
                                       THEN "panicked" ELSE "submitted"]
    /\ UNCHANGED <<state, timeline, pc, args,
                   max_flight, frame, flight, lastWait, acquires, callVars>>

\* `match self.swapchain.present(&self.queue, frame)` up to the return of
\* render_frame, which drops `recorder`.  present advances `frame` unless the
\* native call fails with an error other than out-of-date; the caller
\* recreates the swapchain on Ok(true) and on Err.
SwPresent(out) ==
    /\ render.pc = "submitted"
    /\ SwapchainImpl_present(out, render.frame)
    /\ LET ret == PresentReturn(out, render.frame)
       IN  flight' = IF ~ret.ok \/ ret.needs_recreation THEN recreate(flight) ELSE flight
    /\ DropRecorder(render.recorder)
    /\ render' = [render EXCEPT !.pc = IF PresentPanics THEN "panicked" ELSE "idle"]

(***************************************************************************)
(* SpecApi: any caller of the two swapchain operations, passing any Frame  *)
(* to present.                                                             *)
(***************************************************************************)
Frames == {Frame(i, b) : i \in Images, b \in BOOLEAN}

ApiAcquire(timeout, out) ==
    /\ render.pc = "idle"
    /\ SwapchainImpl_acquire_next(timeout, out)
    /\ render' = IF AcquirePanics(timeout)
                 THEN [render EXCEPT !.pc = "panicked"]
                 ELSE IF AcquireReturn(out).ok
                      THEN [render EXCEPT !.frame = AcquireReturn(out).frame]
                      ELSE render
    /\ UNCHANGED queueVars

ApiPresent(out, fr) ==
    /\ render.pc = "idle"
    /\ SwapchainImpl_present(out, fr)
    /\ render' = [render EXCEPT !.pc = IF PresentPanics THEN "panicked" ELSE "idle"]
    /\ UNCHANGED <<queueVars, flight>>

\* FreeList::new
FreeList_new ==
    /\ inner = [data |-> <<>>, free |-> <<>>]
    /\ flHolder = NoThread
    /\ flCall = [t \in Threads |-> NoCall]
    /\ flLive = {}
    /\ flFreed = <<>>
    /\ flStored = [i \in {} |-> 0]
    /\ flLast = [n |-> 0, op |-> "none", tid |-> NoThread, arg |-> 0, result |-> None]
    /\ flCalls = 0

\* the Buffer of the specifications that do not use it: zeroed memory
BufferIdle ==
    /\ memory = [i \in 1..BufSize |-> 0]
    /\ bufUB = FALSE
    /\ lastWrite = None
    /\ lastRead = None
    /\ bufLast = [n |-> 0, op |-> "none", offset |-> 0, data |-> <<>>]

\* no ImageLayoutTransition built and no barrier recorded yet
ImageInit ==
    /\ imgFrom = None
    /\ imgTo = None
    /\ inferred = [v \in Variants |-> {}]
    /\ inferPanicked = {}
    /\ imgBarrier = None
    /\ imgPc = "running"

\* no Queue operation under way, no thread has a pool
LockInit ==
    /\ lkQueue = NoThread
    /\ lkPools = NoThread
    /\ lkCall = [t \in Threads |-> NoOp]
    /\ lkHasPool = {}
    /\ lkCalls = 0

\* BindlessPoolImpl::new(device, info), info[ty] being the info.max_* of the
\* type: one empty FreeList per descriptor type, one binding of info[ty]
\* descriptors per type
BindlessPoolImpl_new(info) ==
    /\ allocations = [ty \in DescriptorTypes |-> [data |-> <<>>, free |-> <<>>]]
    /\ bindMax = info
    /\ bindHandles = {}
    /\ bindCalls = 0

MoreInit == LockInit /\ BindlessPoolImpl_new([ty \in DescriptorTypes |-> MaxDescriptors])

LibInit == FreeList_new /\ BufferIdle /\ ImageInit /\ MoreInit

Init == QueueInit /\ PoolInit /\ DropInit /\ LibInit /\ SwapchainImpl_new(MaxFlight)

Next ==
    \/ \E t \in Threads : Record(t) /\ UNCHANGED <<poolVars, swapVars, dropVars, libVars>>
    \/ \E r \in 1..MaxRecorders : Finish(r) /\ UNCHANGED <<poolVars, swapVars, dropVars, libVars>>
    \/ \E r \in 1..MaxRecorders : DropRecorder(r) /\ UNCHANGED <<poolVars, swapVars, dropVars, libVars>>
    \/ \E t \in Threads : \E records \in SUBSET (1..MaxRecorders) :
           SubmitLock(t, records) /\ UNCHANGED <<poolVars, swapVars, dropVars, libVars>>
    \/ \E t \in Threads : \E ok \in BOOLEAN :
           SubmitInner(t, ok) /\ UNCHANGED <<poolVars, swapVars, dropVars, libVars>>
    \/ GpuComplete /\ UNCHANGED <<poolVars, loopVars, dropVars, libVars>>

Spec == Init /\ [][Next]_vars

(***************************************************************************)
(* impl Drop for CommandPools, run when the Queue is dropped.  SpecDrop:   *)
(* threads use the queue as in Spec, then the queue is dropped; nothing    *)
(* but the GPU runs beside the drop, which holds `&mut self`.              *)
(***************************************************************************)
Alive == teardown.pc = "alive"

\* the pools the loop has finished with
Destroyed == {teardown.log[i].tid : i \in {k \in DOMAIN teardown.log :
                                            teardown.log[k].op = "destroy_command_pool"}}

\* a Drop that destroys the native pool without freeing the `dropped` buffers
CommandPools_drop_calls_leaky(t, ready, dropped, idle) ==
    (IF ready # <<>>
     THEN <<[op |-> "free_command_buffers", tid |-> t, handles |-> Range(ready), idle |-> idle]>>
     ELSE <<>>)
    \o <<[op |-> "destroy_command_pool", tid |-> t, handles |-> {}, idle |-> idle]>>

\* the native calls Drop makes for one pool once wait_idle has returned:
\* free the collected `ready` handles, free the collected `dropped` handles
\* (each only if there are any), destroy the native pool.  `idle` tells
\* whether the GPU executes nothing at that time.
CommandPools_drop_calls(t, ready, dropped, idle) ==
    (IF ready # <<>>
     THEN <<[op |-> "free_command_buffers", tid |-> t, handles |-> Range(ready), idle |-> idle]>>
     ELSE <<>>)
    \o (IF dropped # <<>>
        THEN <<[op |-> "free_command_buffers", tid |-> t, handles |-> Range(dropped), idle |-> idle]>>
        ELSE <<>>)
    \o <<[op |-> "destroy_command_pool", tid |-> t, handles |-> {}, idle |-> idle]>>

\* the Queue is dropped: no thread is inside submit, which borrows it
DropQueue ==
    /\ Alive
    /\ \A t \in Threads : pc[t] # "submitting"
    /\ teardown' = [teardown EXCEPT !.pc = IF DOMAIN pools = {} THEN "done" ELSE "loop"]
    /\ UNCHANGED queueVars

\* one pass of `for (_thread, pool) in self.pools.get_mut()` up to the
\* return of wait_idle: collect the handles of `ready` and of `dropped`,
\* then block in device_wait_idle until the GPU is idle.  DeviceImpl::
\* wait_idle drops the Result (`let _ =`), so an error (`ok` false) goes on
\* as well.  The map is iterated in no particular order.
DropPoolWait(t, ok) ==
    /\ teardown.pc = "loop"
    /\ t \in DOMAIN pools \ Destroyed
    /\ ok => gpu = <<>>
    /\ teardown' = [teardown EXCEPT
           !.pc = "freeing",
           !.tid = t,
           !.ready = [i \in DOMAIN pools[t].ready |-> pools[t].ready[i].handle],
           !.dropped = [i \in DOMAIN pools[t].dropped |-> pools[t].dropped[i].handle],
           !.failed = ~ok,
           !.log = Append(@, [op |-> "device_wait_idle", tid |-> t, handles |-> {},
                              idle |-> gpu = <<>>])]
    /\ UNCHANGED queueVars

\* the rest of the pass: the frees and the destruction of the native pool
DropPoolFree ==
    /\ teardown.pc = "freeing"
    /\ teardown' = [teardown EXCEPT
           !.pc = IF DOMAIN pools \ Destroyed = {teardown.tid} THEN "done" ELSE "loop",
           !.log = @ \o CommandPools_drop_calls(teardown.tid, teardown.ready,
                                                teardown.dropped, gpu = <<>>)]
    /\ UNCHANGED queueVars

DropNext ==
    \/ \E t \in Threads : Alive /\ Record(t) /\ UNCHANGED <<poolVars, swapVars, dropVars, libVars>>
    \/ \E r \in 1..MaxRecorders :
           Alive /\ Finish(r) /\ UNCHANGED <<poolVars, swapVars, dropVars, libVars>>
    \/ \E r \in 1..MaxRecorders :
           Alive /\ DropRecorder(r) /\ UNCHANGED <<poolVars, swapVars, dropVars, libVars>>
    \/ \E t \in Threads : \E records \in SUBSET (1..MaxRecorders) :
           Alive /\ SubmitLock(t, records) /\ UNCHANGED <<poolVars, swapVars, dropVars, libVars>>
    \/ \E t \in Threads : \E ok \in BOOLEAN :
           Alive /\ SubmitInner(t, ok) /\ UNCHANGED <<poolVars, swapVars, dropVars, libVars>>
    \/ GpuComplete /\ UNCHANGED <<poolVars, loopVars, dropVars, libVars>>
    \/ DropQueue /\ UNCHANGED <<poolVars, swapVars, libVars>>
    \/ \E t \in Threads : \E ok \in BOOLEAN :
           DropPoolWait(t, ok) /\ UNCHANGED <<poolVars, swapVars, libVars>>
    \/ DropPoolFree /\ UNCHANGED <<poolVars, swapVars, libVars>>

SpecDrop == Init /\ [][DropNext]_vars

(***************************************************************************)
(* Claims about the Queue (specification Spec).                            *)
(***************************************************************************)
\* the handles a step takes out of thread t's `dropped` list (reset and put
\* back into `ready`, or freed): only try_cleanup removes from `dropped`
Reclaimed(t) ==
    IF t \in DOMAIN pools
    THEN Handles(pools[t].dropped) \ Handles(pools'[t].dropped)
    ELSE {}

\* C1: a buffer whose last native submission carried index K is reset,
\* returned to `ready` or freed by try_cleanup(C) only when C >= K.
C1_ReclaimAfterCompletion ==
    [][\A t \in Threads : \A h \in Reclaimed(t) :
          Submitted(t, h) => LastSubmission(t, h) <= lastCleanup']_vars

\* C2: the N values Queue::submit has returned are 1, 2, ..., N in the order
\* of the calls (the first submit on a fresh queue returns 1).
C2_IndicesFromOne == \A k \in DOMAIN returned : returned[k] = k

\* C3: for every returned submission index N, the timeline semaphore reads a
\* value >= N only when the GPU has completed submission N.
C3_TimelineMeansComplete ==
    \A k \in DOMAIN returned : timeline >= returned[k] => Completed(returned[k])

\* recorder r's buffer is still in use by its owner: the recorder is alive,
\* or its finished CommandBuffer has not been submitted yet, or a submission
\* that carried the buffer has not completed
InUse(r) ==
    \/ recorders[r].live
    \/ recorders[r].finished /\ ~recorders[r].submitted
    \/ PendingOnGpu(recorders[r].tid, recorders[r].buffer.handle)

\* C4: Queue::record never hands out a buffer that is still in use by an
\* earlier recorder, an unsubmitted CommandBuffer or an uncompleted submission.
C4_ExclusiveBuffer ==
    [][Len(recorders') > Len(recorders) =>
          LET new == recorders'[Len(recorders')]
          IN  \A r \in DOMAIN recorders :
                 (recorders[r].tid = new.tid
                    /\ recorders[r].buffer.handle = new.buffer.handle) => ~InUse(r)]_vars

\* C10: at most one thread at a time is between taking its submission index
\* and returning from QueueImpl::submit.
C10_SubmitSerialised ==
    \A t, u \in Threads : (pc[t] = "submitting" /\ pc[u] = "submitting") => t = u

\* one thread is inside the section while another, which has submitted
\* before, is kept out of it by the lock
C10_Witness ==
    \E t, u \in Threads :
        /\ pc[t] = "submitting" /\ pc[u] = "idle"
        /\ \E e \in native : e.tid = u

\* C11: every live recorder holds a buffer allocated from the pool keyed by
\* its own thread, and no two live recorders hold the same command buffer.
C11_OwnBuffer ==
    /\ \A r \in DOMAIN recorders :
           recorders[r].live =>
              /\ recorders[r].tid \in DOMAIN pools
              /\ recorders[r].buffer.handle \in 1..pools[recorders[r].tid].next
              /\ recorders[r].buffer.handle \notin Handles(pools[recorders[r].tid].ready)
    /\ \A r1, r2 \in DOMAIN recorders :
           (r1 # r2 /\ recorders[r1].live /\ recorders[r2].live
              /\ recorders[r1].tid = recorders[r2].tid)
           => recorders[r1].buffer.handle # recorders[r2].buffer.handle

\* two threads hold live recorders at once, each with a buffer of its own
\* pool
C11_Witness ==
    /\ \E r1, r2 \in DOMAIN recorders :
           /\ recorders[r1].live /\ recorders[r2].live
           /\ recorders[r1].tid # recorders[r2].tid
    /\ DOMAIN pools = Threads

\* C12: when the native queue submit fails, Queue::submit returns to its
\* caller (with an error value) and does not panic: a thread that has a pool,
\* so that the cleanup step cannot fail, never leaves submit by a panic.
C12_SubmitFailureReturned ==
    [][\A t \in Threads :
          (pc[t] = "submitting" /\ t \in DOMAIN pools) => pc'[t] # "panicked"]_vars

\* C13: the index Queue::submit returns, the value the submission signals
\* on the queue's timeline semaphore and the stamp on every listed command
\* buffer are the same number; the stamps are written before the native
\* submit is issued, so they are there even when that call fails.
C13_OneIndex ==
    [][\A t \in Threads :
          (pc[t] = "submitting" /\ pc'[t] # "submitting" /\ t \in DOMAIN pools) =>
             /\ \A r \in args[t].records :
                    recorders'[r].buffer.submission = args[t].submission_index
             /\ Len(returned') > Len(returned) =>
                    /\ Last(gpu').index = Last(returned')
                    /\ \A r \in args[t].records :
                           recorders'[r].buffer.submission = Last(returned')]_vars

\* a submit that listed a command buffer has returned an index above 0
C13_Witness ==
    /\ returned # <<>>
    /\ Last(returned) > 0
    /\ \E r \in DOMAIN recorders :
           recorders[r].submitted /\ recorders[r].buffer.submission = Last(returned)

C15_FinishConsumes == \A r \in DOMAIN recorders : recorders[r].finishes <= 1

\* C30: a buffer that has been retired to `dropped` or returned to `ready` is
\* not passed to the native submit call: no submission carries a buffer that
\* sits in either list of its pool when the call is made.
C30_NoSubmitAfterRetire ==
    [][\A e \in native' \ native :
          e.handle \notin Handles(pools'[e.tid].dropped)
                             \cup Handles(pools'[e.tid].ready)]_vars

\* C31: every submission the native queue accepts signals the queue's
\* timeline with a value above the value the semaphore holds at that moment
\* (0 at creation) and above every value signalled on it before.
C31_SignalAboveCurrent ==
    [][Len(returned') > Len(returned) =>
          /\ Last(returned') > timeline
          /\ \A k \in DOMAIN returned : Last(returned') > returned[k]]_vars

\* C32: Queue::submit on a thread that has no ThreadCommandPool (it never
\* called record() on the queue) does not fail in the cleanup step: the call
\* does not unwind.
C32_SubmitWithoutPool ==
    [][\A t \in Threads :
          (pc[t] = "submitting" /\ pc'[t] # "submitting" /\ t \notin DOMAIN pools)
             => pc'[t] # "panicked"]_vars

\* the step changes the pool keyed by thread u, or creates it
Touched(u) == u \notin DOMAIN pools \/ pools'[u] # pools[u]

\* the step is thread u's: its record(), the drop of one of its recorders,
\* or the second half of its submit
Actor(u) ==
    \/ Len(recorders') > Len(recorders) /\ Last(recorders').tid = u
    \/ \E r \in DOMAIN recorders :
          recorders[r].tid = u /\ recorders[r].live /\ ~recorders'[r].live
    \/ pc[u] = "submitting" /\ pc'[u] # "submitting"

\* C35: the lists of a ThreadCommandPool change only in steps of the thread
\* whose id keys the pool: record, recorder drop and the cleanup inside
\* submit touch the calling thread's pool and no other.
C35_OwnPoolOnly ==
    [][\A u \in DOMAIN pools' : Touched(u) => Actor(u)]_vars

\* a submit has cleaned its own thread's pool (all five buffers of the batch
\* are back in `ready`) and left in place a buffer retired on the other
\* thread that the same cleanup would have taken
C35_Witness ==
    \E t, u \in DOMAIN pools :
       /\ t # u
       /\ Len(pools[t].ready) = BatchSize
       /\ pools[t].dropped = <<>>
       /\ pools[u].dropped # <<>>
       /\ pools[u].dropped[1].submission <= lastCleanup

\* the positions in the log of the calls made for thread t's pool before
\* position i
Before(i, t, op) ==
    {j \in 1..(i - 1) : teardown.log[j].tid = t /\ teardown.log[j].op = op}

\* C16: when CommandPools is dropped, for every pool the device-idle wait
\* has returned before any of its buffers is freed and before its native
\* pool is destroyed (the GPU being idle then, unless the wait reported an
\* error), and every buffer of its `ready` and `dropped` lists has been freed
\* before the native pool is destroyed.
C16_IdleFreeDestroy ==
    \A i \in DOMAIN teardown.log :
       LET e == teardown.log[i]
           waits == Before(i, e.tid, "device_wait_idle")
           frees == Before(i, e.tid, "free_command_buffers")
       IN  /\ e.op \in {"free_command_buffers", "destroy_command_pool"} =>
                 /\ waits # {}
                 /\ Before(i, e.tid, "destroy_command_pool") = {}
                 /\ e.idle \/ \E j \in waits : ~teardown.log[j].idle
           /\ e.op = "destroy_command_pool" =>
                 Handles(pools[e.tid].ready) \cup Handles(pools[e.tid].dropped)
                    \subseteq UNION {teardown.log[j].handles : j \in frees}

\* the drop has run to its end over the pools of two threads, it had buffers
\* of both lists to free, and submissions had been accepted before
C16_Witness ==
    /\ teardown.pc = "done"
    /\ Destroyed = Threads
    /\ \E t \in Threads : pools[t].ready # <<>> /\ pools[t].dropped # <<>>
    /\ returned # <<>>

(***************************************************************************)
(* SpecPool: one ThreadCommandPool and a caller of its three operations.   *)
(***************************************************************************)
\* a caller takes a buffer out of the pool
PoolGet ==
    /\ gets < MaxGets
    /\ Cardinality(held) < MaxHeld
    /\ LET got == ThreadCommandPool_get(tpool)
       IN  /\ tpool' = got.pool
           /\ held' = held \cup {got.buffer.handle}
    /\ gets' = gets + 1

\* the holder gives the buffer back, tagged with the index it last carried
PoolRetire ==
    \E h \in held, s \in 0..MaxTag :
        /\ tpool' = ThreadCommandPool_retire(tpool, DroppedCommandBuffer(h, s))
        /\ held' = held \ {h}
        /\ UNCHANGED gets

PoolCleanup ==
    \E c \in 0..MaxTag :
        /\ tpool' = ThreadCommandPool_try_cleanup(tpool, c)
        /\ lastCleanup' = c
        /\ UNCHANGED <<held, gets>>

PoolNext ==
    \/ PoolGet /\ UNCHANGED <<queueVars, swapVars, dropVars, libVars>>
    \/ PoolRetire /\ UNCHANGED <<queueVars, swapVars, dropVars, libVars>>
    \/ PoolCleanup /\ UNCHANGED <<state, submission_counter, timeline, pools, recorders,
                                 pc, args, returned, gpu, native,
                                 swapVars, dropVars, libVars>>

SpecPool == Init /\ [][PoolNext]_vars

\* C5: the ready list of a pool never holds more than 10 buffers.
C5_ReadyBounded == Len(tpool.ready) <= ReadyCap

\* C36: try_cleanup(C) leaves in `dropped` exactly the entries that were tagged
\* above C, in the order they had, and takes every entry tagged C or below out.
C36_CleanupKeepsPending ==
    [][(gets' = gets /\ held' = held) =>
          /\ tpool'.dropped =
                SelectSeq(tpool.dropped, LAMBDA b : b.submission > lastCleanup')
          /\ \A k \in DOMAIN tpool'.dropped :
                tpool'.dropped[k].submission > lastCleanup']_vars

\* a try_cleanup(0) has taken the buffer tagged 0 back into ready and left the
\* one tagged 1, retired before it, in dropped
C36_Witness ==
    /\ lastCleanup = 0
    /\ gets = 2
    /\ held = {}
    /\ Len(tpool.ready) = BatchSize - 1
    /\ Len(tpool.dropped) = 1
    /\ tpool.dropped[1].submission = 1

\* C37: a buffer try_cleanup takes out of `dropped` goes to ready (stamp 0) or is
\* freed, never both and never neither; the buffers allocated and not yet freed
\* are those of ready, of dropped and of the holders, each counted once.
C37_NoBufferLost ==
    [][/\ \A h \in Handles(tpool.dropped) \ Handles(tpool'.dropped) :
              /\ (CommandBufferImpl(h, 0) \in Range(tpool'.ready)) # (h \in tpool'.freed)
              /\ h \notin Handles(tpool.ready) \cup tpool.freed
       /\ tpool'.next - Cardinality(tpool'.freed)
             = Len(tpool'.ready) + Len(tpool'.dropped) + Cardinality(held')
       /\ Cardinality(Handles(tpool'.ready) \cup Handles(tpool'.dropped) \cup held')
             = Len(tpool'.ready) + Len(tpool'.dropped) + Cardinality(held')
       /\ Handles(tpool'.ready) \cup Handles(tpool'.dropped) \cup held'
             = (1..tpool'.next) \ tpool'.freed]_vars

\* try_cleanup has taken both branches: buffers were freed, others are in ready
C37_Witness ==
    /\ tpool.freed # {}
    /\ tpool.ready # <<>>
    /\ tpool.dropped = <<>>
    /\ held = {}

\* C38: get pops a buffer of ready and allocates nothing when ready is not
\* empty; when it is empty, get allocates exactly 5, hands one out and leaves
\* the other 4 in ready with stamp 0; dropped is the same either way.
C38_GetPopsOrAllocates ==
    [][gets' = gets + 1 =>
          /\ tpool'.dropped = tpool.dropped
          /\ tpool'.freed = tpool.freed
          /\ Cardinality(held' \ held) = 1
          /\ IF tpool.ready # <<>>
             THEN /\ tpool'.next = tpool.next
                  /\ held' \ held \subseteq Handles(tpool.ready)
                  /\ Len(tpool'.ready) = Len(tpool.ready) - 1
                  /\ Range(tpool'.ready) \subseteq Range(tpool.ready)
                  /\ held' \ held = Handles(tpool.ready) \ Handles(tpool'.ready)
             ELSE /\ tpool'.next = tpool.next + BatchSize
                  /\ Len(tpool'.ready) = BatchSize - 1
                  /\ \A k \in DOMAIN tpool'.ready : tpool'.ready[k].submission = 0
                  /\ Handles(tpool'.ready) \cup (held' \ held)
                        = (tpool.next + 1)..(tpool.next + BatchSize)
                  /\ Cardinality(Handles(tpool'.ready)) = BatchSize - 1
                  /\ (held' \ held) \cap Handles(tpool'.ready) = {}]_vars

\* the first get allocated a batch and the second one was served from ready
C38_Witness ==
    /\ gets = 2
    /\ tpool.next = BatchSize
    /\ Len(tpool.ready) = BatchSize - 2
    /\ Len(tpool.dropped) = 1
    /\ Cardinality(held) = 1

(***************************************************************************)
(* SpecSwap: the render loop on a swapchain created with 0..MaxFlight      *)
(* flight slots, and the GPU.                                              *)
(***************************************************************************)
SwapInit == QueueInit /\ PoolInit /\ DropInit /\ LibInit /\ \E n \in 0..MaxFlight : SwapchainImpl_new(n)

SwapNext ==
    \/ \E timeout \in Timeouts : \E out \in AcquireOutcomes :
           SwAcquire(timeout, out) /\ UNCHANGED <<poolVars, dropVars, libVars>>
    \/ SwSuboptimal /\ UNCHANGED <<poolVars, dropVars, libVars>>
    \/ SwRecord /\ UNCHANGED <<poolVars, dropVars, libVars>>
    \/ SwFinish /\ UNCHANGED <<poolVars, dropVars, libVars>>
    \/ \E ok \in BOOLEAN : SwSubmit(ok) /\ UNCHANGED <<poolVars, dropVars, libVars>>
    \/ \E out \in PresentOutcomes : SwPresent(out) /\ UNCHANGED <<poolVars, dropVars, libVars>>
    \/ GpuComplete /\ UNCHANGED <<poolVars, loopVars, dropVars, libVars>>

SpecSwap == SwapInit /\ [][SwapNext]_vars

ApiNext ==
    \/ \E timeout \in Timeouts : \E out \in AcquireOutcomes :
           ApiAcquire(timeout, out) /\ UNCHANGED <<poolVars, dropVars, libVars>>
    \/ \E out \in PresentOutcomes : \E fr \in Frames :
           ApiPresent(out, fr) /\ UNCHANGED <<poolVars, dropVars, libVars>>

SpecApi == SwapInit /\ [][ApiNext]_vars

\* the frame submissions the GPU has not completed
InFlight == {k \in DOMAIN frames : frames[k].index \in Executing}

\* a frame has been submitted from flight slot i
SlotUsed(i) == \E k \in DOMAIN frames : frames[k].slot = i

\* C6: with every submission completing on the GPU, acquire_next returns:
\* on a slot a frame was submitted from, its fence wait fails only while
\* that frame is still executing, because the frame's submission signals
\* flight[i] again.
C6_AcquireReturns ==
    (lastWait.result = "TIMEOUT" /\ SlotUsed(lastWait.slot)) => lastWait.busy

\* a step in which acquire_next gets past wait_fence (resets the fence and
\* requests an image)
AcquireProceeds == acquires' = acquires + 1 /\ render'.pc # "panicked"

C8_NoTimeoutBlocks ==
    /\ lastWait.timeout = None => lastWait.result # "TIMEOUT"
    /\ lastWait.timeout # None => lastWait.blocked <= lastWait.timeout[1]

\* C9: the frames submitted and not yet completed by the GPU never number
\* more than max_flight.
C9_FlightBound == Cardinality(InFlight) <= max_flight

\* every slot of a swapchain with MaxFlight slots has a frame in flight
C9_Witness == max_flight = MaxFlight /\ Cardinality(InFlight) = max_flight

(***************************************************************************)
(* Claims checked under SpecApi.                                           *)
(***************************************************************************)
\* an acquire_next call has just returned (it did not unwind)
AcquireReturned == acquires' = acquires + 1 /\ render'.pc # "panicked"

\* C17: when vkAcquireNextImageKHR answers out-of-date, acquire_next returns
\* Ok(Frame{index: 0, suboptimal: false}) and leaves the rotating frame index
\* as it was.
C17_OutOfDateIsData ==
    [][(AcquireReturned /\ lastAcquire'.out = "ERROR_OUT_OF_DATE_KHR")
          => /\ lastAcquire'.ok
             /\ lastAcquire'.frame = Frame(0, FALSE)
             /\ frame' = frame]_vars

\* an acquire on slot 1 (after a present has rotated the index) was answered
\* out-of-date and returned Ok
C17_Witness ==
    /\ render.pc = "idle"
    /\ lastAcquire.out = "ERROR_OUT_OF_DATE_KHR"
    /\ lastAcquire.ok
    /\ lastWait.slot = 1
    /\ frame = 1

\* C18: a present whose native call does not fail with an error other than
\* out-of-date returns Ok(flag), and flag is true exactly when the native
\* call answered suboptimal or out-of-date or the Frame passed in is
\* suboptimal.
C18_RecreationFlag ==
    lastPresent.out \in {"SUCCESS", "SUBOPTIMAL_KHR", "ERROR_OUT_OF_DATE_KHR"}
        => /\ lastPresent.ok
           /\ lastPresent.needs_recreation
                  <=> \/ lastPresent.out \in {"SUBOPTIMAL_KHR", "ERROR_OUT_OF_DATE_KHR"}
                      \/ lastPresent.frame.suboptimal

\* the native call answered plain success and the flag is still true, because
\* the Frame passed in was suboptimal
C18_Witness ==
    /\ lastPresent.out = "SUCCESS"
    /\ lastPresent.frame.suboptimal
    /\ lastPresent.ok
    /\ lastPresent.needs_recreation

\* C19: no native failure inside acquire_next makes the call panic: a call
\* that finds its slot's sync objects never unwinds, whatever the fence wait
\* answers.
C19_NativeFailureReturned ==
    [][(acquires' = acquires + 1 /\ frame \in DOMAIN flight)
          => render'.pc # "panicked"]_vars

\* C20: the rotating index is always in 0..max_flight-1 and the three sync
\* arrays each have exactly max_flight entries.
C20_FrameInRange ==
    /\ frame \in 0..(max_flight - 1)
    /\ DOMAIN available = 0..(max_flight - 1)
    /\ DOMAIN finished = 0..(max_flight - 1)
    /\ DOMAIN flight = 0..(max_flight - 1)

\* C33: when acquire_next has returned the out-of-date frame or an error
\* after resetting the fence of its slot, and the index still names that
\* slot, the fence is signalled or a pending submission will signal it, so
\* the next acquire_next on the slot can return.
C33_FenceNotStranded ==
    (/\ render.pc = "idle"
     /\ lastAcquire.out \in {"ERROR_OUT_OF_DATE_KHR", "ERROR_DEVICE_LOST"}
     /\ lastWait.slot = frame
     /\ frame \in DOMAIN flight)
        => \/ flight[frame]
           \/ \E k \in DOMAIN gpu : gpu[k].fence = frame

(***************************************************************************)
(* FreeList (freelist.rs).  SpecFree: two threads calling insert, remove   *)
(* and contains on one FreeList.                                           *)
(***************************************************************************)
\* the indices remove and contains are called with
Indices == 0..MaxIdx

\* `self.inner.lock()` ignored: the call goes on whoever holds the Mutex
InnerLockIgnored == TRUE

\* `self.inner.lock()`: the Mutex is free
InnerLockFree == flHolder = NoThread

\* insert that never looks at `free`
insert_pick_grow(in) ==
    [idx |-> Len(in.data), reuse |-> FALSE, free |-> in.free]

\* insert with pop_back in place of pop_front
insert_pick_back(in) ==
    IF in.free # <<>>
    THEN [idx |-> Last(in.free), reuse |-> TRUE, free |-> Front(in.free)]
    ELSE [idx |-> Len(in.data), reuse |-> FALSE, free |-> in.free]

\* insert, lines 35 and 39: `inner.free.pop_front()`, else `inner.data.len()`
insert_pick(in) ==
    IF in.free # <<>>
    THEN [idx |-> Head(in.free), reuse |-> TRUE, free |-> Tail(in.free)]
    ELSE [idx |-> Len(in.data), reuse |-> FALSE, free |-> in.free]

\* insert, lines 36 and 40: `inner.data[idx] = Some(value)`, else
\* `inner.data.push(Some(value))`
insert_store(data, idx, reuse, value) ==
    IF reuse
    THEN [data EXCEPT ![idx + 1] = Some(value)]
    ELSE Append(data, Some(value))

\* remove that queues the index whatever the slot holds
remove_requeue(in, idx) ==
    IF idx >= Len(in.data)
    THEN [inner |-> in, result |-> None]
    ELSE [inner |-> [data |-> [in.data EXCEPT ![idx + 1] = None],
                     free |-> Append(in.free, idx)],
          result |-> in.data[idx + 1]]

\* the body of FreeList::remove; `result` is the Option it returns, the
\* slot's content
remove(in, idx) ==
    IF idx >= Len(in.data)
    THEN [inner |-> in, result |-> None]
    ELSE IF in.data[idx + 1] # None
         THEN [inner |-> [data |-> [in.data EXCEPT ![idx + 1] = None],
                          free |-> Append(in.free, idx)],
               result |-> in.data[idx + 1]]
         ELSE [inner |-> in, result |-> None]

\* contains that only checks the bounds
contains_in_bounds(in, idx) == idx < Len(in.data)

\* the body of FreeList::contains
contains(in, idx) == idx < Len(in.data) /\ in.data[idx + 1] # None

\* a call returns: the guard of the Mutex is dropped
Return(t, op, arg, result) ==
    /\ flHolder' = NoThread
    /\ flCall' = [flCall EXCEPT ![t] = NoCall]
    /\ flLast' = [n |-> flLast.n + 1, op |-> op, tid |-> t, arg |-> arg,
                  result |-> result]

\* a thread calls insert(value), remove(idx) or contains(idx); the value
\* inserted is the number of the call
FreeList_call(t, op, idx) ==
    /\ flCalls < MaxCalls
    /\ flCall[t].pc = "idle"
    /\ flCalls' = flCalls + 1
    /\ flCall' = [flCall EXCEPT ![t] =
                     [pc |-> "waiting", op |-> op,
                      arg |-> IF op = "insert" THEN flCalls + 1 ELSE idx,
                      idx |-> 0, reuse |-> FALSE]]
    /\ UNCHANGED <<inner, flHolder, flLive, flFreed, flStored, flLast>>

\* `let mut inner = self.inner.lock().unwrap()`, the first line of each call
FreeList_lock(t) ==
    /\ flCall[t].pc = "waiting"
    /\ InnerLockFree
    /\ flHolder' = t
    /\ flCall' = [flCall EXCEPT ![t].pc = "locked"]
    /\ UNCHANGED <<inner, flLive, flFreed, flStored, flLast, flCalls>>

\* FreeList::insert up to the choice of the index
FreeList_insert_pick(t) ==
    /\ flCall[t].pc = "locked"
    /\ flCall[t].op = "insert"
    /\ LET pick == insert_pick(inner)
       IN  /\ inner' = [inner EXCEPT !.free = pick.free]
           /\ flCall' = [flCall EXCEPT ![t].pc = "picked", ![t].idx = pick.idx,
                                       ![t].reuse = pick.reuse]
    /\ UNCHANGED <<flHolder, flLive, flFreed, flStored, flLast, flCalls>>

\* FreeList::insert from the store of the value to its return
FreeList_insert(t) ==
    /\ flCall[t].pc = "picked"
    /\ LET idx == flCall[t].idx
           value == flCall[t].arg
       IN  /\ inner' = [inner EXCEPT
                           !.data = insert_store(@, idx, flCall[t].reuse, value)]
           /\ flLive' = flLive \cup {idx}
           /\ flFreed' = SelectSeq(flFreed, LAMBDA i : i # idx)
           /\ flStored' = [i \in DOMAIN flStored \cup {idx} |->
                              IF i = idx THEN value ELSE flStored[i]]
           /\ Return(t, "insert", value, Some(idx))
    /\ UNCHANGED flCalls

\* FreeList::remove
FreeList_remove(t) ==
    /\ flCall[t].pc = "locked"
    /\ flCall[t].op = "remove"
    /\ LET idx == flCall[t].arg
           r == remove(inner, idx)
       IN  /\ inner' = r.inner
           /\ flLive' = IF r.result # None THEN flLive \ {idx} ELSE flLive
           /\ flFreed' = IF r.result # None THEN Append(flFreed, idx) ELSE flFreed
           /\ Return(t, "remove", idx, r.result)
    /\ UNCHANGED <<flStored, flCalls>>

\* FreeList::contains
FreeList_contains(t) ==
    /\ flCall[t].pc = "locked"
    /\ flCall[t].op = "contains"
    /\ Return(t, "contains", flCall[t].arg, Some(contains(inner, flCall[t].arg)))
    /\ UNCHANGED <<inner, flLive, flFreed, flStored, flCalls>>

FreeNext ==
    \/ \E t \in Threads : \E op \in {"insert", "remove", "contains"} :
         \E idx \in Indices :
           /\ op = "insert" => idx = 0
           /\ FreeList_call(t, op, idx)
           /\ UNCHANGED <<queueVars, poolVars, swapVars, dropVars, bufVars, imgVars,
                        moreVars>>
    \/ \E t \in Threads :
           FreeList_lock(t) /\ UNCHANGED <<queueVars, poolVars, swapVars, dropVars, bufVars, imgVars,
                        moreVars>>
    \/ \E t \in Threads :
           FreeList_insert_pick(t) /\ UNCHANGED <<queueVars, poolVars, swapVars, dropVars, bufVars, imgVars,
                        moreVars>>
    \/ \E t \in Threads :
           FreeList_insert(t) /\ UNCHANGED <<queueVars, poolVars, swapVars, dropVars, bufVars, imgVars,
                        moreVars>>
    \/ \E t \in Threads :
           FreeList_remove(t) /\ UNCHANGED <<queueVars, poolVars, swapVars, dropVars, bufVars, imgVars,
                        moreVars>>
    \/ \E t \in Threads :
           FreeList_contains(t) /\ UNCHANGED <<queueVars, poolVars, swapVars, dropVars, bufVars, imgVars,
                        moreVars>>

SpecFree == Init /\ [][FreeNext]_vars

(***************************************************************************)
(* Claims checked under SpecFree.                                          *)
(***************************************************************************)
\* the step is the return of a call of `op`
Returns(op) == flLast'.n # flLast.n /\ flLast'.op = op

\* C21: contains(idx) is true exactly for the indices that an insert has
\* returned and that no remove has taken since, and a contains call answers
\* just that.
C21_Membership ==
    /\ \A idx \in Indices : contains(inner, idx) <=> idx \in flLive
    /\ flLast.op = "contains" => flLast.result = Some(flLast.arg \in flLive)

\* contains has answered false for a slot that exists and was emptied, while
\* another index is live
C21_Witness ==
    /\ flLast.op = "contains"
    /\ flLast.result = Some(FALSE)
    /\ flLast.arg < Len(inner.data)
    /\ flLive # {}

\* C22: insert grows the backing store, by one slot, only when no freed index
\* is pending; otherwise it returns a pending index and the length stays.
C22_ReuseBeforeGrow ==
    [][Returns("insert") =>
          LET idx == flLast'.result[1]
          IN  IF flFreed = <<>>
              THEN /\ idx = Len(inner.data)
                   /\ Len(inner'.data) = Len(inner.data) + 1
              ELSE /\ idx \in Range(flFreed)
                   /\ Len(inner'.data) = Len(inner.data)]_vars

\* the fourth call or a later one was an insert that returned index 0 again,
\* with two slots in the store
C22_Witness ==
    /\ flLast.op = "insert"
    /\ flLast.result = Some(0)
    /\ flLast.arg >= 4
    /\ Len(inner.data) = 2
    /\ flLive = {0, 1}

\* C23: while freed indices are pending, insert returns the one that was
\* freed first.
C23_FifoReuse ==
    [][(Returns("insert") /\ flFreed # <<>>)
          => flLast'.result[1] = Head(flFreed)]_vars

\* indices 1 and 0 were freed in that order and reused in that order: the
\* fifth call put its value in slot 1 and the sixth in slot 0
C23_Witness ==
    /\ flLive = {0, 1}
    /\ flStored[1] = 5
    /\ flStored[0] = 6

\* C24: while freed indices are pending, insert returns the lowest of them.
C24_LowestFirst ==
    [][(Returns("insert") /\ flFreed # <<>>)
          => \A i \in Range(flFreed) : flLast'.result[1] <= i]_vars

\* C25: remove of an index that is out of bounds or whose slot is empty
\* returns None and changes neither the slots nor the queue of free indices;
\* any other remove returns Some; no index is queued twice.
C25_RemoveNone ==
    [][Returns("remove") =>
          LET idx == flLast'.arg
              empty == idx >= Len(inner.data) \/ inner.data[idx + 1] = None
          IN  /\ empty => flLast'.result = None /\ inner' = inner
              /\ ~empty => flLast'.result # None
              /\ Cardinality({k \in DOMAIN inner'.free : inner'.free[k] = idx}) <= 1]_vars

\* the same index removed a second time: None, with the index queued
C25_Witness ==
    /\ flLast.op = "remove"
    /\ flLast.result = None
    /\ flLast.arg \in Range(inner.free)

\* C26: calls from several threads take effect one at a time: an insert
\* never returns an index that is live, and every live index still holds the
\* value it was inserted with.
C26_Atomic ==
    [][/\ Returns("insert") => flLast'.result[1] \notin flLive
       /\ \A i \in flLive' : /\ i < Len(inner'.data)
                             /\ inner'.data[i + 1] = Some(flStored'[i])]_vars

\* one thread is in the middle of an insert while the other has called insert
\* and waits for the Mutex, with a value already in the list
C26_Witness ==
    /\ flLive # {}
    /\ \E t, u \in Threads :
          /\ flCall[t].pc = "picked"
          /\ flCall[u].pc = "waiting"
          /\ flCall[u].op = "insert"

(***************************************************************************)
(* Buffer (buffer.rs).  SpecBuf: writes and reads of one host-visible      *)
(* Buffer through Buffer::write and Buffer::read.                          *)
(***************************************************************************)
Bytes == 0..MaxByte

\* the slices a caller passes: every byte sequence of up to MaxData bytes
Slices == UNION {[1..n -> Bytes] : n \in 0..MaxData}

\* the offsets and sizes a caller passes
Offsets == 0..BufSize

\* a mapping that ignores the offset
map_base(offset) == 0

\* BufferImpl::map: `map_memory(allocation).unwrap().add(offset)`, as the
\* distance of the returned pointer from the start of the allocation
map(offset) == offset

\* ptr::copy(src, dst, n) into the allocation: `mapping` is the distance of
\* dst from its start.  The bytes that fall inside the allocation.
CopyIn(mem, mapping, data) ==
    [i \in 1..Len(mem) |->
        IF i - 1 >= mapping /\ i - 1 < mapping + Len(data)
        THEN data[i - mapping]
        ELSE mem[i]]

\* ptr::copy_nonoverlapping(mapping, buffer, size) out of the allocation:
\* the bytes that are read inside the allocation and land inside `buffer`
CopyOut(mem, mapping, buffer, size) ==
    [i \in 1..Len(buffer) |->
        IF i <= size /\ mapping + i <= Len(mem)
        THEN mem[mapping + i]
        ELSE buffer[i]]

\* the byte ranges [o, o + n) and [p, p + m) have a byte in common
Overlap(o, n, p, m) == \E i \in 0..BufSize : i >= o /\ i < o + n /\ i >= p /\ i < p + m

\* Buffer::write(data, offset).  A copy that runs past the allocation is
\* undefined behaviour: the bytes inside it are written or not.
Buffer_write(data, offset) ==
    /\ bufLast.n < MaxBufOps
    /\ bufLast' = [n |-> bufLast.n + 1, op |-> "write", offset |-> offset,
                   data |-> data]
    /\ IF map(offset) + Len(data) <= BufSize
       THEN /\ memory' = CopyIn(memory, map(offset), data)
            /\ UNCHANGED bufUB
       ELSE /\ memory' \in {memory, CopyIn(memory, map(offset), data)}
            /\ bufUB' = TRUE
    /\ lastWrite' \in
          {Some([data |-> data, offset |-> offset])}
             \cup (IF /\ lastWrite # None
                      /\ ~Overlap(offset, Len(data),
                                  lastWrite[1].offset, Len(lastWrite[1].data))
                   THEN {lastWrite} ELSE {})
    /\ UNCHANGED lastRead

\* Buffer::read(buffer, offset, size) into a zeroed slice of n bytes.  A copy
\* that runs past the allocation or past the slice is undefined behaviour.
Buffer_read(n, offset, size) ==
    /\ bufLast.n < MaxBufOps
    /\ bufLast' = [n |-> bufLast.n + 1, op |-> "read", offset |-> offset,
                   data |-> <<>>]
    /\ LET buffer == [i \in 1..n |-> 0]
       IN  lastRead' = Some([buffer |-> CopyOut(memory, map(offset), buffer, size),
                             offset |-> offset, size |-> size])
    /\ bufUB' = (bufUB \/ map(offset) + size > BufSize \/ size > n)
    /\ UNCHANGED <<memory, lastWrite>>

\* BufferImpl::new: the allocation holds whatever bytes the allocator gave
BufferImpl_new ==
    /\ memory \in [1..BufSize -> Bytes]
    /\ bufUB = FALSE
    /\ lastWrite = None
    /\ lastRead = None
    /\ bufLast = [n |-> 0, op |-> "none", offset |-> 0, data |-> <<>>]

BufInit ==
    /\ QueueInit /\ PoolInit /\ DropInit /\ FreeList_new /\ ImageInit /\ MoreInit
    /\ SwapchainImpl_new(MaxFlight)
    /\ BufferImpl_new

BufNext ==
    \/ \E data \in Slices : \E offset \in Offsets :
           /\ Buffer_write(data, offset)
           /\ UNCHANGED <<queueVars, poolVars, swapVars, dropVars, freeVars, imgVars,
                        moreVars>>
    \/ \E n \in 0..MaxData : \E offset \in Offsets : \E size \in 0..MaxData :
           /\ Buffer_read(n, offset, size)
           /\ UNCHANGED <<queueVars, poolVars, swapVars, dropVars, freeVars, imgVars,
                        moreVars>>

SpecBuf == BufInit /\ [][BufNext]_vars

\* the latest call is a read of just the range of lastWrite, in bounds
ReadBack ==
    /\ bufLast.op = "read"
    /\ ~bufUB
    /\ lastWrite # None
    /\ lastRead[1].offset = lastWrite[1].offset
    /\ lastRead[1].size = Len(lastWrite[1].data)
    /\ Len(lastRead[1].buffer) = lastRead[1].size

\* C27: a read of the range of an earlier write, with no write to that range
\* in between, yields the bytes written, and a write that stays inside the
\* buffer leaves every byte outside its range as it was.
C27_RoundTrip ==
    [][/\ ReadBack' => lastRead'[1].buffer = lastWrite'[1].data
       /\ (/\ bufLast'.op = "write"
           /\ bufLast'.n # bufLast.n
           /\ bufLast'.offset + Len(bufLast'.data) <= BufSize) =>
             \A i \in 1..BufSize :
                IF i - 1 >= bufLast'.offset /\ i - 1 < bufLast'.offset + Len(bufLast'.data)
                THEN memory'[i] = bufLast'.data[i - bufLast'.offset]
                ELSE memory'[i] = memory[i]]_vars

\* two bytes written at offset 1 were read back by the third call, while
\* byte 0 holds another value
C27_Witness ==
    /\ ReadBack
    /\ bufLast.n = 3
    /\ lastWrite[1].offset = 1
    /\ lastRead[1].buffer = <<1, 1>>
    /\ memory[1] = 0

(***************************************************************************)
(* Image layouts (image.rs) and CommandRecorderImpl::image_transition       *)
(* (command.rs).  Flag values are sets of flag names.  SpecImg: a caller    *)
(* that builds ImageLayoutTransition values and records transitions.       *)
(***************************************************************************)
\* the vk::ImageLayout payloads of ImageLayout::Custom that callers use
CustomLayouts == {"GENERAL", "TRANSFER_SRC_OPTIMAL"}

\* enum ImageLayout: `vk` is the payload of Custom
ImageLayouts ==
    {[variant |-> v, vk |-> "-"] : v \in Variants \ {"Custom"}}
        \cup {[variant |-> "Custom", vk |-> l] : l \in CustomLayouts}

\* the stage and access masks callers pass to ImageLayoutTransition::custom
CustomStages == {{}, {"TRANSFER"}}
CustomAccesses == {{}, {"TRANSFER_READ"}}

Inferred(stage, access) == [panics |-> FALSE, stage |-> stage, access |-> access]

\* a lookup that answers empty flags for Custom
infer_stage_flags_zeroed(layout) ==
    CASE layout.variant = "Undefined" -> Inferred({}, {})
      [] layout.variant = "Unified" -> Inferred({"ALL_COMMANDS"}, {})
      [] layout.variant = "General" ->
             Inferred({"ALL_COMMANDS"}, {"SHADER_READ", "SHADER_WRITE"})
      [] layout.variant = "Compute" ->
             Inferred({"COMPUTE_SHADER"}, {"SHADER_READ", "SHADER_WRITE"})
      [] layout.variant = "Fragment" -> Inferred({"FRAGMENT_SHADER"}, {"SHADER_READ"})
      [] layout.variant = "Color" ->
             Inferred({"COLOR_ATTACHMENT_OUTPUT"}, {"COLOR_ATTACHMENT_WRITE"})
      [] layout.variant = "TransferDst" -> Inferred({"TRANSFER"}, {"TRANSFER_WRITE"})
      [] layout.variant = "Present" -> Inferred({"BOTTOM_OF_PIPE"}, {})
      [] OTHER -> Inferred({}, {})

\* ImageLayout::infer_stage_flags
infer_stage_flags(layout) ==
    CASE layout.variant = "Undefined" -> Inferred({}, {})
      [] layout.variant = "Unified" -> Inferred({"ALL_COMMANDS"}, {})
      [] layout.variant = "General" ->
             Inferred({"ALL_COMMANDS"}, {"SHADER_READ", "SHADER_WRITE"})
      [] layout.variant = "Compute" ->
             Inferred({"COMPUTE_SHADER"}, {"SHADER_READ", "SHADER_WRITE"})
      [] layout.variant = "Fragment" -> Inferred({"FRAGMENT_SHADER"}, {"SHADER_READ"})
      [] layout.variant = "Color" ->
             Inferred({"COLOR_ATTACHMENT_OUTPUT"}, {"COLOR_ATTACHMENT_WRITE"})
      [] layout.variant = "TransferDst" -> Inferred({"TRANSFER"}, {"TRANSFER_WRITE"})
      [] layout.variant = "Present" -> Inferred({"BOTTOM_OF_PIPE"}, {})
      [] layout.variant = "Custom" -> [panics |-> TRUE, stage |-> {}, access |-> {}]

\* impl From<ImageLayout> for vk::ImageLayout
VkImageLayout(layout) ==
    CASE layout.variant = "Undefined" -> [panics |-> FALSE, vk |-> "UNDEFINED"]
      [] layout.variant = "Unified" -> [panics |-> TRUE, vk |-> "-"]
      [] layout.variant = "General" -> [panics |-> FALSE, vk |-> "GENERAL"]
      [] layout.variant = "Compute" -> [panics |-> FALSE, vk |-> "GENERAL"]
      [] layout.variant = "Fragment" ->
             [panics |-> FALSE, vk |-> "SHADER_READ_ONLY_OPTIMAL"]
      [] layout.variant = "Color" ->
             [panics |-> FALSE, vk |-> "COLOR_ATTACHMENT_OPTIMAL"]
      [] layout.variant = "TransferDst" ->
             [panics |-> FALSE, vk |-> "TRANSFER_DST_OPTIMAL"]
      [] layout.variant = "Present" -> [panics |-> FALSE, vk |-> "PRESENT_SRC_KHR"]
      [] layout.variant = "Custom" -> [panics |-> FALSE, vk |-> layout.vk]

\* struct ImageLayoutTransition
ImageLayoutTransition(layout, stage, access) ==
    [layout |-> layout, stage |-> stage, access |-> access]

\* the ImageMemoryBarrier2 that image_transition builds from `transition`
ImageMemoryBarrier2(from, to) ==
    LET old_layout == VkImageLayout(from.layout)
        src_stage == from.stage
        src_access == from.access
        new_layout == VkImageLayout(to.layout)
        dst_stage == to.stage
        dst_access == from.access
    IN  [panics |-> old_layout.panics \/ new_layout.panics,
         old_layout |-> old_layout.vk,
         src_stage_mask |-> src_stage,
         src_access_mask |-> src_access,
         new_layout |-> new_layout.vk,
         dst_stage_mask |-> dst_stage,
         dst_access_mask |-> dst_access]

\* the caller stores a transition it has built in the `from` or the `to` of
\* the ImageTransition it is preparing
Store(slot, transition) ==
    /\ imgFrom' = IF slot = "from" THEN Some(transition) ELSE imgFrom
    /\ imgTo' = IF slot = "to" THEN Some(transition) ELSE imgTo
    /\ imgBarrier' = None

\* ImageLayoutTransition::new(layout)
ImageLayoutTransition_new(slot, layout) ==
    /\ imgPc = "running"
    /\ LET r == infer_stage_flags(layout)
       IN  IF r.panics
           THEN /\ imgPc' = "panicked"
                /\ inferPanicked' = inferPanicked \cup {layout.variant}
                /\ UNCHANGED <<imgFrom, imgTo, inferred, imgBarrier>>
           ELSE /\ inferred' = [inferred EXCEPT ![layout.variant] =
                                   @ \cup {<<r.stage, r.access>>}]
                /\ Store(slot, ImageLayoutTransition(layout, r.stage, r.access))
                /\ UNCHANGED <<imgPc, inferPanicked>>

\* ImageLayoutTransition::custom(layout, stage, access)
ImageLayoutTransition_custom(slot, layout, stage, access) ==
    /\ imgPc = "running"
    /\ Store(slot, ImageLayoutTransition([variant |-> "Custom", vk |-> layout],
                                         stage, access))
    /\ UNCHANGED <<inferred, inferPanicked, imgPc>>

\* CommandRecorderImpl::image_transition(image, ImageTransition { from, to, .. }):
\* the ImageTransition is moved into the call
CommandRecorderImpl_image_transition ==
    /\ imgPc = "running"
    /\ imgFrom # None
    /\ imgTo # None
    /\ LET b == ImageMemoryBarrier2(imgFrom[1], imgTo[1])
       IN  /\ imgBarrier' = Some([from |-> imgFrom[1], to |-> imgTo[1], barrier |-> b])
           /\ imgPc' = IF b.panics THEN "panicked" ELSE imgPc
    /\ imgFrom' = None
    /\ imgTo' = None
    /\ UNCHANGED <<inferred, inferPanicked>>

ImgNext ==
    \/ \E slot \in {"from", "to"} : \E layout \in ImageLayouts :
           /\ ImageLayoutTransition_new(slot, layout)
           /\ UNCHANGED <<queueVars, poolVars, swapVars, dropVars, freeVars, bufVars,
                        moreVars>>
    \/ \E slot \in {"from", "to"} : \E layout \in CustomLayouts :
         \E stage \in CustomStages : \E access \in CustomAccesses :
           /\ ImageLayoutTransition_custom(slot, layout, stage, access)
           /\ UNCHANGED <<queueVars, poolVars, swapVars, dropVars, freeVars, bufVars,
                        moreVars>>
    \/ /\ CommandRecorderImpl_image_transition
       /\ UNCHANGED <<queueVars, poolVars, swapVars, dropVars, freeVars, bufVars,
                        moreVars>>

SpecImg == Init /\ [][ImgNext]_vars

\* C28: for every variant but Custom, infer_stage_flags returns, and always
\* the same (stage, access) pair; on Custom it panics and returns nothing.
C28_InferFixed ==
    /\ \A v \in Variants \ {"Custom"} :
          v \notin inferPanicked /\ Cardinality(inferred[v]) <= 1
    /\ inferred["Custom"] = {}

\* infer_stage_flags has panicked on Custom after it answered for Compute
C28_Witness ==
    /\ "Custom" \in inferPanicked
    /\ inferred["Compute"] = {<<{"COMPUTE_SHADER"}, {"SHADER_READ", "SHADER_WRITE"}>>}

\* C29: the barrier image_transition records takes its old layout, source
\* stage and source access from `from` and its new layout, destination stage
\* and destination access from `to`.
C29_BarrierSides ==
    (imgBarrier # None /\ ~imgBarrier[1].barrier.panics) =>
        LET from == imgBarrier[1].from
            to == imgBarrier[1].to
            b == imgBarrier[1].barrier
        IN  /\ b.old_layout = VkImageLayout(from.layout).vk
            /\ b.src_stage_mask = from.stage
            /\ b.src_access_mask = from.access
            /\ b.new_layout = VkImageLayout(to.layout).vk
            /\ b.dst_stage_mask = to.stage
            /\ b.dst_access_mask = to.access

(***************************************************************************)
(* The locks of a Queue.  SpecLock: two threads calling record, submit and *)
(* dropping recorders, each operation as the sequence of its lock steps.   *)
(* Both locks are parking_lot mutexes: not reentrant, released on unwind.  *)
(***************************************************************************)
Step(kind, lock) == [kind |-> kind, lock |-> lock]

\* a record() that takes the queue lock inside CommandPools::get
RecordStepsNested ==
    <<Step("acquire", "pools"), Step("acquire", "queue"), Step("release", "queue"),
      Step("release", "pools"), Step("work", "none")>>

\* Queue::record: CommandPools::get holds the pools lock from its first line
\* to its return; ThreadCommandPool::get and begin_command_buffer follow
RecordSteps ==
    <<Step("acquire", "pools"), Step("release", "pools"), Step("work", "none")>>

\* Queue::submit: `self.lock()`, then in QueueImpl::submit
\* CommandPools::try_cleanup under the pools lock (it unwraps the caller's
\* pool), then vkQueueSubmit, then the return drops `_lock`
SubmitSteps(has_pool) ==
    IF has_pool
    THEN <<Step("acquire", "queue"), Step("acquire", "pools"),
           Step("release", "pools"), Step("work", "none"), Step("release", "queue")>>
    ELSE <<Step("acquire", "queue"), Step("acquire", "pools"), Step("panic", "none")>>

\* impl Drop for CommandRecorderImpl: ThreadCommandPool::retire, no lock
DropSteps == <<Step("work", "none")>>

\* the steps of the operation thread t is in
Steps(t) ==
    CASE lkCall[t].op = "record" -> RecordSteps
      [] lkCall[t].op = "submit" -> SubmitSteps(t \in lkHasPool)
      [] lkCall[t].op = "drop" -> DropSteps
      [] OTHER -> <<>>

\* thread t is inside an operation
Active(t) == lkCall[t].op \in {"record", "submit", "drop"}

\* the step thread t is about to take
Upcoming(t) == Steps(t)[lkCall[t].at]

Holder(lock) == IF lock = "queue" THEN lkQueue ELSE lkPools

\* thread t cannot take its next step: it wants a lock that is held
Blocked(t) ==
    /\ Active(t)
    /\ Upcoming(t).kind = "acquire"
    /\ Holder(Upcoming(t).lock) # NoThread

\* a thread starts record(), submit() or the drop of a recorder it holds
LkCall(t, op) ==
    /\ lkCalls < MaxLockCalls
    /\ lkCall[t] = NoOp
    /\ op = "drop" => t \in lkHasPool
    /\ lkCall' = [lkCall EXCEPT ![t] = [op |-> op, at |-> 1]]
    /\ lkCalls' = lkCalls + 1
    /\ UNCHANGED <<lkQueue, lkPools, lkHasPool>>

\* thread t takes the next step of its operation
LkStep(t) ==
    /\ Active(t)
    /\ ~Blocked(t)
    /\ LET e == Upcoming(t)
           Take(lock, holder) ==
               IF e.kind = "acquire" /\ e.lock = lock THEN t
               ELSE IF e.kind = "release" /\ e.lock = lock THEN NoThread
               ELSE IF e.kind = "panic" /\ holder = t THEN NoThread
               ELSE holder
       IN  /\ lkQueue' = Take("queue", lkQueue)
           /\ lkPools' = Take("pools", lkPools)
           /\ lkHasPool' = IF lkCall[t].op = "record" /\ e = Step("release", "pools")
                           THEN lkHasPool \cup {t} ELSE lkHasPool
           /\ lkCall' = [lkCall EXCEPT ![t] =
                            IF e.kind = "panic" THEN [op |-> "panicked", at |-> 1]
                            ELSE IF lkCall[t].at = Len(Steps(t)) THEN NoOp
                            ELSE [@ EXCEPT !.at = @ + 1]]
    /\ UNCHANGED lkCalls

LockNext ==
    \/ \E t \in Threads : \E op \in {"record", "submit", "drop"} :
           /\ LkCall(t, op)
           /\ UNCHANGED <<queueVars, poolVars, swapVars, dropVars, freeVars, bufVars,
                          imgVars, bindVars>>
    \/ \E t \in Threads :
           /\ LkStep(t)
           /\ UNCHANGED <<queueVars, poolVars, swapVars, dropVars, freeVars, bufVars,
                          imgVars, bindVars>>

SpecLock == Init /\ [][LockNext]_vars

\* C34: no interleaving of record, submit and recorder drops deadlocks: while
\* some thread is inside an operation, one of them can take a step; the queue
\* lock is never requested by a thread that holds the pools lock; record()
\* never holds the queue lock; no thread waits for the GPU with a lock held.
C34_NoDeadlock ==
    /\ (\E t \in Threads : Active(t)) => \E t \in Threads : Active(t) /\ ~Blocked(t)
    /\ \A t \in Threads :
          Active(t) =>
             /\ Upcoming(t) = Step("acquire", "queue") => lkPools # t
             /\ lkCall[t].op = "record" => lkQueue # t
             /\ Upcoming(t).kind = "wait_gpu" => lkQueue # t /\ lkPools # t

\* a submit holds the queue lock and waits for the pools lock, which a
\* record() on the other thread holds
C34_Witness ==
    \E t, u \in Threads :
       /\ lkCall[t].op = "submit" /\ lkQueue = t /\ Blocked(t)
       /\ lkCall[u].op = "record" /\ lkPools = u

(***************************************************************************)
(* SpecBind: a caller of allocate and free on one BindlessPoolImpl whose   *)
(* BindlessPoolCreateInfo asks for 1..MaxDescriptors descriptors of each   *)
(* type (descriptor2.rs).                                                  *)
(***************************************************************************)
BindInit ==
    /\ QueueInit /\ PoolInit /\ DropInit /\ SwapchainImpl_new(MaxFlight)
    /\ FreeList_new /\ BufferIdle /\ ImageInit /\ LockInit
    /\ \E info \in [DescriptorTypes -> 1..MaxDescriptors] : BindlessPoolImpl_new(info)

\* what allocate returns
DescriptorHandleRaw(ty, index) == [ty |-> ty, index |-> index]

\* BindlessPoolImpl::allocate: `list.insert(())` on the FreeList of the type
BindlessPoolImpl_allocate(ty) ==
    /\ bindCalls < MaxAllocs
    /\ LET list == allocations[ty]
           pick == insert_pick(list)
           index == pick.idx
       IN  /\ allocations' =
                 [allocations EXCEPT
                     ![ty] = [data |-> insert_store(list.data, index, pick.reuse, "()"),
                              free |-> pick.free]]
           /\ bindHandles' = bindHandles \cup {DescriptorHandleRaw(ty, index)}
    /\ bindCalls' = bindCalls + 1
    /\ UNCHANGED bindMax

\* BindlessPoolImpl::free: `list.remove(index)`; the handle is consumed
BindlessPoolImpl_free(handle) ==
    /\ handle \in bindHandles
    /\ allocations' =
          [allocations EXCEPT ![handle.ty] = remove(@, handle.index).inner]
    /\ bindHandles' = bindHandles \ {handle}
    /\ UNCHANGED <<bindMax, bindCalls>>

BindNext ==
    \/ \E ty \in DescriptorTypes :
           /\ BindlessPoolImpl_allocate(ty)
           /\ UNCHANGED <<queueVars, poolVars, swapVars, dropVars, freeVars, bufVars,
                          imgVars, lockVars>>
    \/ \E handle \in bindHandles :
           /\ BindlessPoolImpl_free(handle)
           /\ UNCHANGED <<queueVars, poolVars, swapVars, dropVars, freeVars, bufVars,
                          imgVars, lockVars>>

SpecBind == BindInit /\ [][BindNext]_vars

\* C39: a handle allocate returned never has an index at or above the maximum
\* descriptor count configured for its type: it addresses an entry of the
\* descriptor table.
C39_HandleInTable == \A h \in bindHandles : h.index < bindMax[h.ty]

====
